---- MODULE Spec2Model ----
(***************************************************************************)
(* Model of app/app.py, the Flask "Vault Secrets Demo" status reporter.    *)
(*                                                                         *)
(* The process state is the process environment (os.environ), the port     *)
(* bound by the main block, and, for the most recent request, the snapshot *)
(* built by get_secret_info (the handler's local `secrets`) and the        *)
(* response returned.  Every handler is one action.  os.getenv is modelled *)
(* with the value it returns and the environment it leaves behind, and the *)
(* handlers thread the environment through every lookup they make.         *)
(*                                                                         *)
(* Python values: a str is a TLA+ string; the result of os.getenv(key)     *)
(* without default is <<>> for None and <<s>> for the str s.               *)
(***************************************************************************)
EXTENDS Integers, FiniteSets, Sequences, TLC

VARIABLES
    env,       \* os.environ: the variables that are set, with their values
    port,      \* the port bound by the main block
    snapshot,  \* the snapshot built by the latest request (its local `secrets`)
    response   \* the latest response returned

vars == <<env, port, snapshot, response>>

(***************************************************************************)
(* Bounds and input domains.                                               *)
(***************************************************************************)
\* datetime.now() returns one of the clock readings 0..MaxClock
MaxClock == 1

\* at most MaxEdge secret variables hold an edge value at once
MaxEdge == 2

Clock == 0..MaxClock

MyappNames == {"MYAPP_USERNAME", "MYAPP_PASSWORD", "MYAPP_API_KEY"}

DatabaseNames == {"DATABASE_HOST", "DATABASE_PORT", "DATABASE_USERNAME", "DATABASE_PASSWORD"}

SecretNames == MyappNames \cup DatabaseNames

PasswordNames == {"MYAPP_PASSWORD", "DATABASE_PASSWORD"}

ClusterNames == {"POD_NAMESPACE", "POD_NAME", "NODE_NAME", "SERVICE_ACCOUNT"}

\* values a set non-password secret variable may hold: an ordinary value,
\* the empty string, and the text of the absence sentinel
PlainValues == {"alice", "", "Not found"}

\* values a set password variable may hold: an ordinary value, the empty
\* string, the text of the absence sentinel and the text of the mask
PasswordValues == {"secret", "", "Not found", "***"}

ClusterValues == {"demo"}

PortValues == {"9090"}

ValuesOf(name) ==
    IF name \in PasswordNames THEN PasswordValues
    ELSE IF name \in SecretNames THEN PlainValues
    ELSE IF name = "PORT" THEN PortValues
    ELSE ClusterValues

\* every environment over the variables `names`: each is unset or holds one
\* of its values
EnvsOver(names) ==
    UNION { { f \in [S -> PlainValues \cup PasswordValues \cup ClusterValues \cup PortValues] :
                \A n \in S : f[n] \in ValuesOf(n) } : S \in SUBSET names }

\* the values that collide with what the program treats specially: the empty
\* string, the text of the absence sentinel, the text of the mask
EdgeValues == {"", "Not found", "***"}

\* the secret variables ranging over their values, nothing else set, with at
\* most MaxEdge of them holding an edge value
SecretEnvs ==
    { e \in EnvsOver(SecretNames) :
        Cardinality({n \in DOMAIN e : e[n] \in EdgeValues}) <= MaxEdge }

\* every presence pattern of the secret variables, with the cluster
\* variables and PORT ranging over all their values
PresenceEnvs ==
    { [n \in S |-> IF n \in PasswordNames THEN "secret" ELSE "alice"] : S \in SUBSET SecretNames }

OtherEnvs == EnvsOver(ClusterNames \cup {"PORT"})

Environments == SecretEnvs \cup { s @@ o : s \in PresenceEnvs, o \in OtherEnvs }

(***************************************************************************)
(* Library behaviour used by the program.                                  *)
(***************************************************************************)
None == <<>>

\* os.environ.setdefault-like lookup: an absent key is written back
getenv_or_setdefault(e, key, default) ==
    [value   |-> IF key \in DOMAIN e THEN e[key] ELSE default,
     environ |-> IF key \in DOMAIN e THEN e ELSE e @@ (key :> default)]

\* a lookup that ignores the default given
getenv_or_empty(e, key, default) ==
    [value   |-> IF key \in DOMAIN e THEN e[key] ELSE "",
     environ |-> e]

\* os.getenv(key, default): the value returned and the environment after
getenv_or(e, key, default) ==
    [value   |-> IF key \in DOMAIN e THEN e[key] ELSE default,
     environ |-> e]

\* os.getenv(key): None when the key is absent
getenv(e, key) ==
    [value   |-> IF key \in DOMAIN e THEN <<e[key]>> ELSE None,
     environ |-> e]

\* truth value of the result of os.getenv(key): None and '' are false
truthy(v) == v # None /\ v[1] # ""

\* datetime.now().strftime('%Y-%m-%d %H:%M:%S UTC')
strftime(t) == <<"%Y-%m-%d %H:%M:%S UTC", t>>

\* datetime.now().isoformat()
isoformat(t) == <<"isoformat", t>>

\* int(s) on the port texts of the input domain
int(s) == CASE s = "9090" -> 9090
            [] s = "8080" -> 8080

(***************************************************************************)
(* get_secret_info, get_kubernetes_info                                    *)
(***************************************************************************)
\* the password expression with the value passed through
mask_raw(v) == IF truthy(v) THEN v[1] ELSE "Not found"

\* the password expression testing `is not None`
mask_not_none(v) == IF v # None THEN "***" ELSE "Not found"

\* '***' if os.getenv(KEY) else 'Not found'
mask(v) == IF truthy(v) THEN "***" ELSE "Not found"

get_secret_info(e, now) ==
    LET mu == getenv_or(e, "MYAPP_USERNAME", "Not found")
        mp == getenv(mu.environ, "MYAPP_PASSWORD")
        mk == getenv_or(mp.environ, "MYAPP_API_KEY", "Not found")
        dh == getenv_or(mk.environ, "DATABASE_HOST", "Not found")
        dp == getenv_or(dh.environ, "DATABASE_PORT", "Not found")
        du == getenv_or(dp.environ, "DATABASE_USERNAME", "Not found")
        dw == getenv(du.environ, "DATABASE_PASSWORD")
    IN  [value   |-> [myapp        |-> [username |-> mu.value,
                                        password |-> mask(mp.value),
                                        api_key  |-> mk.value],
                      database     |-> [host     |-> dh.value,
                                        port     |-> dp.value,
                                        username |-> du.value,
                                        password |-> mask(dw.value)],
                      last_updated |-> strftime(now)],
         environ |-> dw.environ]

get_kubernetes_info(e) ==
    LET ns == getenv_or(e, "POD_NAMESPACE", "Unknown")
        pn == getenv_or(ns.environ, "POD_NAME", "Unknown")
        nn == getenv_or(pn.environ, "NODE_NAME", "Unknown")
        sa == getenv_or(nn.environ, "SERVICE_ACCOUNT", "default")
    IN  [value   |-> [namespace       |-> ns.value,
                      pod_name        |-> pn.value,
                      node_name       |-> nn.value,
                      service_account |-> sa.value],
         environ |-> sa.environ]

(***************************************************************************)
(* vault_status                                                            *)
(***************************************************************************)
total_expected == 7

\* a count of every field of the group
count_all(d) == Cardinality(DOMAIN d)

\* sum(1 for v in d.values() if v != 'Not found')
loaded(d) == Cardinality({k \in DOMAIN d : d[k] # "Not found"})

\* the classification without the override for zero
classify_no_override(total_loaded) ==
    IF total_loaded = total_expected THEN "healthy" ELSE "partial"

\* the classification with the override testing the wrong bound
classify_override_low(total_loaded) ==
    LET status == IF total_loaded = total_expected THEN "healthy" ELSE "partial"
    IN  IF total_loaded <= 1 THEN "failed" ELSE status

\* status = 'healthy' if total_loaded == total_expected else 'partial'
\* if total_loaded == 0: status = 'failed'
classify(total_loaded) ==
    LET status == IF total_loaded = total_expected THEN "healthy" ELSE "partial"
    IN  IF total_loaded = 0 THEN "failed" ELSE status

\* body of vault_status given the snapshot it built
vault_status_body(secrets, now) ==
    LET myapp_loaded == loaded(secrets.myapp)
        db_loaded    == loaded(secrets.database)
        total_loaded == myapp_loaded + db_loaded
    IN  [status           |-> classify(total_loaded),
         secrets_loaded   |-> total_loaded,
         secrets_expected |-> total_expected,
         myapp_secrets    |-> myapp_loaded,
         database_secrets |-> db_loaded,
         last_check       |-> isoformat(now)]

\* a health payload that follows the vault classification
health_body_by_secrets(e, now) ==
    [status    |-> IF classify(loaded(get_secret_info(e, now).value.myapp)
                               + loaded(get_secret_info(e, now).value.database)) = "failed"
                   THEN "unhealthy" ELSE "healthy",
     timestamp |-> isoformat(now)]

\* body of health_check
health_body(e, now) ==
    [status    |-> "healthy",
     timestamp |-> isoformat(now)]

(***************************************************************************)
(* The process.                                                            *)
(***************************************************************************)
DefaultPort == 8080

NoSnapshot == [built |-> FALSE]

NoResponse == [path |-> "none"]

\* port = int(os.getenv('PORT', 8080))
main_port(e) == IF "PORT" \in DOMAIN e THEN int(e["PORT"]) ELSE DefaultPort

Init ==
    /\ env \in Environments
    /\ port = main_port(env)
    /\ snapshot = NoSnapshot
    /\ response = NoResponse

\* GET /
index ==
    \E now \in Clock :
        \E secrets \in {get_secret_info(env, now)} :
            \E k8s_info \in {get_kubernetes_info(secrets.environ)} :
                /\ env' = k8s_info.environ
                /\ snapshot' = [built |-> TRUE, value |-> secrets.value]
                /\ response' = [path |-> "/", code |-> 200,
                                body |-> [template |-> "index.html",
                                          secrets  |-> secrets.value,
                                          k8s_info |-> k8s_info.value]]
                /\ UNCHANGED port

\* GET /api/secrets
api_secrets ==
    \E now \in Clock :
        \E secrets \in {get_secret_info(env, now)} :
            /\ env' = secrets.environ
            /\ snapshot' = [built |-> TRUE, value |-> secrets.value]
            /\ response' = [path |-> "/api/secrets", code |-> 200,
                            body |-> secrets.value]
            /\ UNCHANGED port

\* GET /api/health
health_check ==
    \E now \in Clock :
        /\ response' = [path |-> "/api/health", code |-> 200,
                        body |-> health_body(env, now)]
        /\ snapshot' = NoSnapshot
        /\ UNCHANGED <<env, port>>

\* GET /api/vault-status; the snapshot is stamped at t1, the response at a
\* later reading t2 of the clock
vault_status ==
    \E t1 \in Clock, t2 \in Clock :
        \E secrets \in {get_secret_info(env, t1)} :
            /\ t1 <= t2
            /\ env' = secrets.environ
            /\ snapshot' = [built |-> TRUE, value |-> secrets.value]
            /\ response' = [path |-> "/api/vault-status", code |-> 200,
                            body |-> vault_status_body(secrets.value, t2)]
            /\ UNCHANGED port

Next == index \/ api_secrets \/ health_check \/ vault_status

Spec == Init /\ [][Next]_vars

(***************************************************************************)
(* Vocabulary of the properties.                                           *)
(***************************************************************************)
\* the environment variable behind each field of the snapshot
FieldVar ==
    [myapp    |-> [username |-> "MYAPP_USERNAME",
                   password |-> "MYAPP_PASSWORD",
                   api_key  |-> "MYAPP_API_KEY"],
     database |-> [host     |-> "DATABASE_HOST",
                   port     |-> "DATABASE_PORT",
                   username |-> "DATABASE_USERNAME",
                   password |-> "DATABASE_PASSWORD"]]

Groups == {"myapp", "database"}

\* the secret variables that are set in e
SetSecrets(e) == SecretNames \cap DOMAIN e

IsSet(e, n) == n \in DOMAIN e

IsNonEmpty(e, n) == n \in DOMAIN e /\ e[n] # ""

VaultAnswered == response.path = "/api/vault-status"

\* the snapshots a client is shown: the one built by the latest request, the
\* one given to the template of GET / and the body of GET /api/secrets
ShownSnapshots ==
    (IF snapshot.built THEN {snapshot.value} ELSE {})
    \cup (IF response.path = "/" THEN {response.body.secrets} ELSE {})
    \cup (IF response.path = "/api/secrets" THEN {response.body} ELSE {})

\* a snapshot and a vault-status body with the timestamps left out
UntimedSnapshot(s) == [myapp |-> s.myapp, database |-> s.database]

UntimedStatus(b) ==
    [status |-> b.status, secrets_loaded |-> b.secrets_loaded,
     secrets_expected |-> b.secrets_expected, myapp_secrets |-> b.myapp_secrets,
     database_secrets |-> b.database_secrets]

(***************************************************************************)
(* C1                                                                      *)
(***************************************************************************)
\* C1 as stated: in every snapshot shown, each password field is "***" when
\* its variable is set to a non-empty value, "Not found" when the variable is
\* unset, and is never the raw value of the variable.
C1_NeverRawValue ==
    \A s \in ShownSnapshots : \A g \in Groups :
        LET n == FieldVar[g].password
            v == s[g].password
        IN  /\ IsNonEmpty(env, n) => v = "***"
            /\ ~IsSet(env, n) => v = "Not found"
            /\ IsSet(env, n) => v # env[n]

\* C1 amended: in every snapshot shown, each password field is "***" when its
\* variable is set to a non-empty value and "Not found" when the variable is
\* unset, and it differs from the raw value of the variable unless that raw
\* value is itself the mask text "***".
C1_MaskedPasswords ==
    \A s \in ShownSnapshots : \A g \in Groups :
        LET n == FieldVar[g].password
            v == s[g].password
        IN  /\ IsNonEmpty(env, n) => v = "***"
            /\ ~IsSet(env, n) => v = "Not found"
            /\ (IsSet(env, n) /\ env[n] # "***") => v # env[n]

C1_Witness ==
    /\ response.path = "/api/secrets"
    /\ IsSet(env, "MYAPP_PASSWORD") /\ env["MYAPP_PASSWORD"] = "secret"
    /\ ~IsSet(env, "DATABASE_PASSWORD")

(***************************************************************************)
(* C2, C3, C4                                                              *)
(***************************************************************************)
\* C2: when some but not all of the 7 secret variables are set, whatever the
\* values they hold, /api/vault-status reports "partial" and secrets_loaded
\* equal to the number of secret variables that are set.
C2_PartialCountsSetVariables ==
    (VaultAnswered /\ SetSecrets(env) # {} /\ SetSecrets(env) # SecretNames)
        => /\ response.body.status = "partial"
           /\ response.body.secrets_loaded = Cardinality(SetSecrets(env))

\* C3: when all 7 secret variables are set to non-empty values,
\* /api/vault-status reports "healthy" and secrets_loaded 7.
C3_AllSetIsHealthy ==
    (VaultAnswered /\ \A n \in SecretNames : IsNonEmpty(env, n))
        => /\ response.body.status = "healthy"
           /\ response.body.secrets_loaded = 7

\* C4: when all 7 secret variables are unset, /api/vault-status reports
\* "failed" and secrets_loaded 0, whatever the other variables hold.
C4_NoneSetIsFailed ==
    (VaultAnswered /\ SetSecrets(env) = {})
        => /\ response.body.status = "failed"
           /\ response.body.secrets_loaded = 0

C4_Witness ==
    /\ VaultAnswered
    /\ SetSecrets(env) = {}
    /\ IsSet(env, "POD_NAME") /\ IsSet(env, "SERVICE_ACCOUNT") /\ IsSet(env, "PORT")

(***************************************************************************)
(* C5                                                                      *)
(***************************************************************************)
\* C5: in the snapshot built by get_secret_info, every field whose variable
\* is absent is exactly "Not found"; with no variable set all 7 fields are.
C5_AbsentIsNotFound ==
    snapshot.built =>
        /\ \A g \in Groups : \A f \in DOMAIN FieldVar[g] :
              ~IsSet(env, FieldVar[g][f]) => snapshot.value[g][f] = "Not found"
        /\ SetSecrets(env) = {} =>
              /\ snapshot.value.myapp = [username |-> "Not found",
                                         password |-> "Not found",
                                         api_key  |-> "Not found"]
              /\ snapshot.value.database = [host     |-> "Not found",
                                            port     |-> "Not found",
                                            username |-> "Not found",
                                            password |-> "Not found"]

C5_Witness ==
    /\ snapshot.built
    /\ response.path = "/api/secrets"
    /\ SetSecrets(env) = {"DATABASE_HOST"}

(***************************************************************************)
(* C6                                                                      *)
(***************************************************************************)
\* C6: every answer of GET /api/health is 200 with status "healthy", in every
\* environment and after any earlier requests.
C6_HealthAlwaysHealthy ==
    response.path = "/api/health" =>
        /\ response.code = 200
        /\ response.body.status = "healthy"

C6_Witness ==
    /\ response.path = "/api/health"
    /\ SetSecrets(env) = {}

(***************************************************************************)
(* C7                                                                      *)
(***************************************************************************)
\* the answer of the handler of `path` on environment e alone, timestamps
\* left out
UntimedAnswer(path, e) ==
    CASE path = "/" ->
            [secrets  |-> UntimedSnapshot(get_secret_info(e, 0).value),
             k8s_info |-> get_kubernetes_info(e).value]
      [] path = "/api/secrets" ->
            UntimedSnapshot(get_secret_info(e, 0).value)
      [] path = "/api/health" ->
            [status |-> health_body(e, 0).status]
      [] path = "/api/vault-status" ->
            UntimedStatus(vault_status_body(get_secret_info(e, 0).value, 0))

UntimedBody(r) ==
    CASE r.path = "/" ->
            [secrets  |-> UntimedSnapshot(r.body.secrets),
             k8s_info |-> r.body.k8s_info]
      [] r.path = "/api/secrets" -> UntimedSnapshot(r.body)
      [] r.path = "/api/health" -> [status |-> r.body.status]
      [] r.path = "/api/vault-status" -> UntimedStatus(r.body)

OrderedRule(n) ==
    IF n = 0 THEN "failed" ELSE IF n = 7 THEN "healthy" ELSE "partial"

\* C8: for every populated count n in 0..7 the status computed by
\* vault_status is the one of the ordered rule: failed iff n = 0, healthy iff
\* n = 7, partial iff 1 <= n <= 6; every answer carries that status.
C8_ClassificationMatchesRule ==
    /\ \A n \in 0..7 :
          /\ classify(n) = OrderedRule(n)
          /\ classify(n) = "failed" <=> n = 0
          /\ classify(n) = "healthy" <=> n = 7
          /\ classify(n) = "partial" <=> (1 <= n /\ n <= 6)
    /\ VaultAnswered => response.body.status = OrderedRule(response.body.secrets_loaded)

C8_Witness ==
    /\ VaultAnswered
    /\ response.body.secrets_loaded = 1

(***************************************************************************)
(* C9                                                                      *)
(***************************************************************************)
\* C9: in every /api/vault-status answer secrets_loaded is the sum of the two
\* group counts, myapp_secrets is in 0..3, database_secrets in 0..4,
\* secrets_expected is 7 and bounds secrets_loaded, and each group count is
\* the number of fields of that group in the snapshot of the same request
\* that differ from "Not found".
C9_CountsAreConsistent ==
    VaultAnswered =>
        LET b == response.body
            s == snapshot.value
        IN  /\ b.secrets_loaded = b.myapp_secrets + b.database_secrets
            /\ b.myapp_secrets \in 0..3
            /\ b.database_secrets \in 0..4
            /\ b.secrets_expected = 7
            /\ b.secrets_loaded <= b.secrets_expected
            /\ b.myapp_secrets =
                  Cardinality({f \in {"username", "password", "api_key"} :
                                  s.myapp[f] # "Not found"})
            /\ b.database_secrets =
                  Cardinality({f \in {"host", "port", "username", "password"} :
                                  s.database[f] # "Not found"})

C9_Witness ==
    /\ VaultAnswered
    /\ response.body.myapp_secrets = 2
    /\ response.body.database_secrets = 3
    /\ IsSet(env, "MYAPP_API_KEY") /\ env["MYAPP_API_KEY"] = "Not found"

(***************************************************************************)
(* C10                                                                     *)
(***************************************************************************)
\* the settings of a variable: unset, or set to one of the password values
Settings == {None} \cup { <<v>> : v \in PasswordValues }

SettingOf(e, n) == IF n \in DOMAIN e THEN <<e[n]>> ELSE None

WithSetting(e, n, o) ==
    IF o = None
    THEN [k \in DOMAIN e \ {n} |-> e[k]]
    ELSE [k \in DOMAIN e \cup {n} |-> IF k = n THEN o[1] ELSE e[k]]

\* the environments that agree with e outside the two password variables and
\* in which each password variable is set to a non-empty value exactly when
\* it is in e
PasswordVariants(e) ==
    { WithSetting(WithSetting(e, "MYAPP_PASSWORD", a), "DATABASE_PASSWORD", b) :
        a \in { o \in Settings : truthy(o) = truthy(SettingOf(e, "MYAPP_PASSWORD")) },
        b \in { o \in Settings : truthy(o) = truthy(SettingOf(e, "DATABASE_PASSWORD")) } }

\* C10: the /api/secrets snapshot and the /api/vault-status answer
\* (timestamps aside) are the same in any two environments that differ only
\* in the contents of the password variables while each password variable is
\* set non-empty in both or in neither.
C10_PasswordNoninterference ==
    /\ response.path = "/api/secrets" =>
          \A e2 \in PasswordVariants(env) :
              UntimedSnapshot(response.body) = UntimedSnapshot(get_secret_info(e2, 0).value)
    /\ VaultAnswered =>
          \A e2 \in PasswordVariants(env) :
              UntimedStatus(response.body)
                 = UntimedStatus(vault_status_body(get_secret_info(e2, 0).value, 0))

C10_Witness ==
    /\ VaultAnswered
    /\ IsSet(env, "MYAPP_PASSWORD") /\ env["MYAPP_PASSWORD"] = "secret"
    /\ IsSet(env, "DATABASE_PASSWORD") /\ env["DATABASE_PASSWORD"] = "***"

====
